---- MODULE Spec2Model ----
(***************************************************************************)
(* A model of the register-mapped GPU of src/core/hw/gpu.cpp: the register *)
(* file g_regs with its Read and Write handlers, the memory-fill, display- *)
(* transfer and command-list engines that trigger writes run, and the      *)
(* VBlank callback that CoreTiming fires once per frame.                   *)
(*                                                                         *)
(* Words are 32-bit unsigned values.  Every word the model stores is below *)
(* 2^31, so that the arithmetic below stays in the integers of the model   *)
(* checker; unsigned wrap-around is written out where the code relies on   *)
(* it (RegIndex).                                                          *)
(***************************************************************************)
EXTENDS Integers, Sequences, FiniteSets, TLC

----------------------------------------------------------------------------
(* Bounds of the model. *)

\* bytes of emulated physical memory that are mapped, starting at MemBase
MemSize == 192
\* calls (Read, Write, VBlankCallback) in one behaviour
MaxOps == 2
\* calls in a run of the frame event
MaxFrames == 10

----------------------------------------------------------------------------
(* The register file layout (struct Regs). *)

\* Regs::NumIds(): the number of 32-bit cells of the register file
NumIds == 4096
\* HW::VADDR_GPU, the virtual address of cell 0
VADDR_GPU == 519045120
\* memory_fill_config[n], four words each: start, end, value, control
memory_fill_config(n) == IF n = 0 THEN 4 ELSE 8
fill_address_start(n) == memory_fill_config(n) + 0
fill_address_end(n) == memory_fill_config(n) + 1
fill_value(n) == memory_fill_config(n) + 2
fill_control(n) == memory_fill_config(n) + 3
\* display_transfer_config
display_transfer_config == 768
dt_input_address == display_transfer_config + 0
dt_output_address == display_transfer_config + 1
dt_output_size == display_transfer_config + 2
dt_input_size == display_transfer_config + 3
dt_flags == display_transfer_config + 4
dt_trigger == display_transfer_config + 6
dt_texture_copy_size == display_transfer_config + 8
dt_texture_copy_input_size == display_transfer_config + 9
dt_texture_copy_output_size == display_transfer_config + 10
\* command_processor_config
command_processor_config == 1592
cp_size == command_processor_config + 0
cp_address == command_processor_config + 2
cp_trigger == command_processor_config + 4
\* framebuffer_config[0] (top screen) and [1] (sub screen)
framebuffer_config(n) == IF n = 0 THEN 279 ELSE 343

\* the cells whose write may run an engine
TriggerCells == {fill_control(0), fill_control(1), dt_trigger, cp_trigger}

\* The cells the model keeps a word for: the padding words 0 .. 3, the
\* configurations of the engines, and the two framebuffer configurations.
\* The cells between them are never addressed here; a cell is in range by
\* NumIds, whether it is kept or not.
RegCells ==
    (0 .. 11)
    \cup (display_transfer_config .. (display_transfer_config + 10))
    \cup (command_processor_config .. (command_processor_config + 4))
    \cup (framebuffer_config(0) .. (framebuffer_config(0) + 15))
    \cup (framebuffer_config(1) .. (framebuffer_config(1) + 15))

----------------------------------------------------------------------------
(* Bit fields of a word (BitField<position, bits, u32>). *)

Pow2(n) == 2 ^ n
\* BitField::Value()
Field(word, pos, bits) == (word \div Pow2(pos)) % Pow2(bits)
\* BitField::Assign(): the other bits are kept
Assign(word, pos, bits, v) ==
    word - Field(word, pos, bits) * Pow2(pos) + (v % Pow2(bits)) * Pow2(pos)

\* Regs::DecodeAddressRegister: address registers hold the address / 8
DecodeAddressRegister(reg) == reg * 8

----------------------------------------------------------------------------
(* Emulated physical memory (Memory::GetPhysicalPointer) and the calls the  *)
(* handlers make to their collaborators.                                    *)

\* the first mapped physical address (VRAM)
MemBase == 402653184
\* the null pointer
NULL == 0
Mapped(p) == p >= MemBase /\ p < MemBase + MemSize
\* a host pointer is written as the physical address it resolves
GetPhysicalPointer(paddr) == IF Mapped(paddr) THEN paddr ELSE NULL

\* memory before any engine has run: byte i of the mapped region holds i % 256
MemInit == [p \in MemBase .. (MemBase + MemSize - 1) |-> (p - MemBase) % 256]

\* one call to a collaborator, or one raw-memory access, of a handler
Ev(call, id, a, b, c) == [call |-> call, id |-> id, a |-> a, b |-> b, c |-> c]

SignalInterrupt(st, id) ==
    [st EXCEPT !.events = Append(@, Ev("SignalInterrupt", id, 0, 0, 0))]
Call(st, call, a, b, c) ==
    [st EXCEPT !.events = Append(@, Ev(call, "", a, b, c))]

\* u32 subtraction a - b; a result of 2^32 - n is written -n
U32Sub(a, b) == a - b

\* the little-endian bytes of a value of `n` bytes
RECURSIVE LEBytes(_, _)
LEBytes(value, n) ==
    IF n = 0 THEN << >> ELSE << value % 256 >> \o LEBytes(value \div 256, n - 1)

\* bytes[1..n] stored at ptr[0..n-1]; a byte outside the mapped memory is a
\* wild store: memory keeps its contents and st.fault records it.  What the
\* handler does after an undefined access is not followed: its loops stop.
Store(st, ptr, bytes) ==
    LET n == Len(bytes) IN
    [st EXCEPT
       !.mem = [p \in DOMAIN @ |->
                  IF p >= ptr /\ p < ptr + n THEN bytes[p - ptr + 1] ELSE @[p]],
       !.fault = @ \/ (\E k \in 0 .. (n - 1) : ~Mapped(ptr + k)),
       !.events = Append(@, Ev("store", "", ptr, n, 0))]

\* std::memcpy(dst, src, n): the bytes are read before any is written; a wild
\* access and overlapping ranges are undefined, which st.fault records
Memcpy(st, dst, src, n) ==
    [st EXCEPT
       !.mem = [p \in DOMAIN @ |->
                  IF p >= dst /\ p < dst + n /\ Mapped(src + (p - dst))
                  THEN @[src + (p - dst)] ELSE @[p]],
       !.fault = @ \/ (\E k \in 0 .. (n - 1) :
                          ~Mapped(dst + k) \/ ~Mapped(src + k))
                   \/ (n > 0 /\ dst < src + n /\ src < dst + n),
       !.events = Append(@, Ev("memcpy", "", dst, src, n))]

----------------------------------------------------------------------------
(* The memory-fill engine: Write's case for memory_fill_config[n].trigger.  *)

\* for (u8* ptr = start; ptr < end; ptr += 3) { ptr[0] = r; ptr[1] = g; ptr[2] = b; }
RECURSIVE Fill24(_, _, _, _)
Fill24(st, ptr, end, value) ==
    IF ptr < end /\ ~st.fault
    THEN Fill24(Store(st, ptr, << Field(value, 0, 8), Field(value, 8, 8),
                                  Field(value, 16, 8) >>),
                ptr + 3, end, value)
    ELSE st

\* for (size_t i = 0; i < len; ++i) memcpy(&start[i * 4], &value, 4);
RECURSIVE Fill32Loop(_, _, _, _, _)
Fill32Loop(st, start, i, len, value) ==
    IF i < len /\ ~st.fault
    THEN Fill32Loop(Store(st, start + i * 4, LEBytes(value, 4)),
                    start, i + 1, len, value)
    ELSE st

\* Fill32 with one word too many
Fill32_OneMore(st, start, end, value) ==
    IF end > start
    THEN Fill32Loop(st, start, 0, (end - start) \div 4 + 1, value)
    ELSE st

\* size_t len = (end - start) / sizeof(u32); then the loop
Fill32(st, start, end, value) ==
    IF end > start
    THEN Fill32Loop(st, start, 0, (end - start) \div 4, value)
    ELSE st

\* for (u8* ptr = start; ptr < end; ptr += 2) memcpy(ptr, &value_16bit, 2);
RECURSIVE Fill16(_, _, _, _)
Fill16(st, ptr, end, value) ==
    IF ptr < end /\ ~st.fault
    THEN Fill16(Store(st, ptr, LEBytes(Field(value, 0, 16), 2)),
                ptr + 2, end, value)
    ELSE st

\* FillWidth with the 32-bit flag tested first
FillWidth_WidestFirst(control) ==
    IF Field(control, 9, 1) = 1 THEN 32
    ELSE IF Field(control, 8, 1) = 1 THEN 24
    ELSE 16

\* the width the software fill uses
FillWidth(control) ==
    IF Field(control, 8, 1) = 1 THEN 24
    ELSE IF Field(control, 9, 1) = 1 THEN 32
    ELSE 16

\* the software fill
SoftwareFill(st, start, end, control, value) ==
    CASE FillWidth(control) = 24 -> Fill24(st, start, end, value)
      [] FillWidth(control) = 32 -> Fill32(st, start, end, value)
      [] OTHER -> Fill16(st, start, end, value)

\* FillInterrupt with PSC0 for both engines
FillInterrupt_AlwaysPSC0(n) == "PSC0"

\* the interrupt of fill engine n
FillInterrupt(n) == IF n = 0 THEN "PSC0" ELSE "PSC1"

\* FillBody with the software fill run before the region is flushed
FillBody_FillsBeforeFlush(st, n, accel) ==
    LET address_start == DecodeAddressRegister(st.regs[fill_address_start(n)])
        address_end == DecodeAddressRegister(st.regs[fill_address_end(n)])
        start == GetPhysicalPointer(address_start)
        end == GetPhysicalPointer(address_end)
        offered == Call(st, "AccelerateFill", n, 0, 0)
        filled ==
          IF accel THEN offered
          ELSE Call(SoftwareFill(offered, start, end, st.regs[fill_control(n)],
                                 st.regs[fill_value(n)]),
                    "RasterizerFlushAndInvalidateRegion",
                    address_start, U32Sub(address_end, address_start), 0)
    IN SignalInterrupt(filled, FillInterrupt(n))

\* if (config.address_start) { ... }
FillBody(st, n, accel) ==
    LET address_start == DecodeAddressRegister(st.regs[fill_address_start(n)])
        address_end == DecodeAddressRegister(st.regs[fill_address_end(n)])
        start == GetPhysicalPointer(address_start)
        end == GetPhysicalPointer(address_end)
        offered == Call(st, "AccelerateFill", n, 0, 0)
        filled ==
          IF accel THEN offered
          ELSE SoftwareFill(
                 Call(offered, "RasterizerFlushAndInvalidateRegion",
                      address_start, U32Sub(address_end, address_start), 0),
                 start, end, st.regs[fill_control(n)], st.regs[fill_value(n)])
    IN SignalInterrupt(filled, FillInterrupt(n))

\* config.trigger.Assign(0); config.finished.Assign(1);
FillComplete(st, n) ==
    [st EXCEPT !.regs[fill_control(n)] = Assign(Assign(@, 0, 1, 0), 1, 1, 1)]

\* MemoryFill with the completion inside the test of address_start
MemoryFill_CompletesInsideBranch(st, n, accel) ==
    IF Field(st.regs[fill_control(n)], 0, 1) = 1 /\ st.regs[fill_address_start(n)] # 0
    THEN FillComplete(FillBody(st, n, accel), n)
    ELSE st

\* if (config.trigger) { if (config.address_start) {...} completion }
MemoryFill(st, n, accel) ==
    IF Field(st.regs[fill_control(n)], 0, 1) = 1
    THEN FillComplete(
           IF st.regs[fill_address_start(n)] # 0 THEN FillBody(st, n, accel) ELSE st,
           n)
    ELSE st

----------------------------------------------------------------------------
(* The display-transfer engine, texture-copy mode.                          *)

Min(a, b) == IF a < b THEN a ELSE b

\* CopyLoop with chunks that ignore remaining_size
RECURSIVE CopyLoop_IgnoresTotal(_, _, _, _, _, _, _)
CopyLoop_IgnoresTotal(st, src_pointer, dst_pointer, remaining_size, remaining_input, remaining_output, cfg) ==
    IF remaining_size > 0 /\ ~st.fault
    THEN LET copy_size == Min(remaining_input, remaining_output)
             copied == Memcpy(st, dst_pointer, src_pointer, copy_size)
             rin == remaining_input - copy_size
             rout == remaining_output - copy_size
         IN CopyLoop_IgnoresTotal(copied,
                     src_pointer + copy_size + (IF rin = 0 THEN cfg.input_gap ELSE 0),
                     dst_pointer + copy_size + (IF rout = 0 THEN cfg.output_gap ELSE 0),
                     remaining_size - copy_size,
                     IF rin = 0 THEN cfg.input_width ELSE rin,
                     IF rout = 0 THEN cfg.output_width ELSE rout,
                     cfg)
    ELSE st

\* while (remaining_size > 0) { ... }
RECURSIVE CopyLoop(_, _, _, _, _, _, _)
CopyLoop(st, src_pointer, dst_pointer, remaining_size, remaining_input, remaining_output, cfg) ==
    IF remaining_size > 0 /\ ~st.fault
    THEN LET copy_size == Min(Min(remaining_input, remaining_output), remaining_size)
             copied == Memcpy(st, dst_pointer, src_pointer, copy_size)
             rin == remaining_input - copy_size
             rout == remaining_output - copy_size
         IN CopyLoop(copied,
                     src_pointer + copy_size + (IF rin = 0 THEN cfg.input_gap ELSE 0),
                     dst_pointer + copy_size + (IF rout = 0 THEN cfg.output_gap ELSE 0),
                     remaining_size - copy_size,
                     IF rin = 0 THEN cfg.input_width ELSE rin,
                     IF rout = 0 THEN cfg.output_width ELSE rout,
                     cfg)
    ELSE st

\* config.texture_copy, the widths and gaps in bytes
TextureCopyConfig(regs) ==
    [size |-> regs[dt_texture_copy_size],
     input_width |-> Field(regs[dt_texture_copy_input_size], 0, 16) * 16,
     input_gap |-> Field(regs[dt_texture_copy_input_size], 16, 16) * 16,
     output_width |-> Field(regs[dt_texture_copy_output_size], 0, 16) * 16,
     output_gap |-> Field(regs[dt_texture_copy_output_size], 16, 16) * 16]

\* size / width * (width + gap)
ContiguousSize(size, width, gap) == (size \div width) * (width + gap)

\* if (config.is_texture_copy) { ... break; }
\* A row width of 0 divides by zero in the first statement, which is
\* undefined: the handler traps or, where the division yields a value, the
\* loop copies 0 bytes for ever.  Either way Write does not return, which
\* st.fault records.
TextureCopy(st, src_pointer, dst_pointer) ==
    LET cfg == TextureCopyConfig(st.regs)
        input_address == DecodeAddressRegister(st.regs[dt_input_address])
        output_address == DecodeAddressRegister(st.regs[dt_output_address])
    IN IF cfg.input_width = 0 \/ cfg.output_width = 0
       THEN [st EXCEPT !.fault = TRUE]
       ELSE SignalInterrupt(
              CopyLoop(
                Call(Call(st, "RasterizerFlushRegion", input_address,
                          ContiguousSize(cfg.size, cfg.input_width, cfg.input_gap), 0),
                     "RasterizerFlushAndInvalidateRegion", output_address,
                     ContiguousSize(cfg.size, cfg.output_width, cfg.output_gap), 0),
                src_pointer, dst_pointer, cfg.size, cfg.input_width,
                cfg.output_width, cfg),
              "PPF")

----------------------------------------------------------------------------
(* The pixel codec of common/color.h and the tiled offset                   *)
(* (VideoCore::GetMortonOffset).                                            *)

\* Regs::PixelFormat
RGBA8 == 0
RGB8 == 1
RGB565 == 2
RGB5A1 == 3
RGBA4 == 4

\* Regs::BytesPerPixel
BytesPerPixel(format) ==
    CASE format = RGBA8 -> 4
      [] format = RGB8 -> 3
      [] format \in {RGB565, RGB5A1, RGBA4} -> 2

Convert1To8(v) == v * 255
Convert4To8(v) == v * 16 + v
Convert5To8(v) == (v * 8) + (v \div 4)
Convert6To8(v) == (v * 4) + (v \div 16)
Convert8To1(v) == v \div 128
Convert8To4(v) == v \div 16
Convert8To5(v) == v \div 8
Convert8To6(v) == v \div 4

\* the byte at ptr[0]; a wild load reads 0
ReadByte(mem, ptr) == IF Mapped(ptr) THEN mem[ptr] ELSE 0
ReadU16(mem, ptr) == ReadByte(mem, ptr) + 256 * ReadByte(mem, ptr + 1)

\* DecodePixel: the colour << r, g, b, a >> of the pixel at src_pixel
DecodePixel(input_format, mem, src_pixel) ==
    LET pixel == ReadU16(mem, src_pixel) IN
    CASE input_format = RGBA8 ->
           << ReadByte(mem, src_pixel + 3), ReadByte(mem, src_pixel + 2),
              ReadByte(mem, src_pixel + 1), ReadByte(mem, src_pixel) >>
      [] input_format = RGB8 ->
           << ReadByte(mem, src_pixel + 2), ReadByte(mem, src_pixel + 1),
              ReadByte(mem, src_pixel), 255 >>
      [] input_format = RGB565 ->
           << Convert5To8(Field(pixel, 11, 5)), Convert6To8(Field(pixel, 5, 6)),
              Convert5To8(Field(pixel, 0, 5)), 255 >>
      [] input_format = RGB5A1 ->
           << Convert5To8(Field(pixel, 11, 5)), Convert5To8(Field(pixel, 6, 5)),
              Convert5To8(Field(pixel, 1, 5)), Convert1To8(Field(pixel, 0, 1)) >>
      [] input_format = RGBA4 ->
           << Convert4To8(Field(pixel, 12, 4)), Convert4To8(Field(pixel, 8, 4)),
              Convert4To8(Field(pixel, 4, 4)), Convert4To8(Field(pixel, 0, 4)) >>
      [] OTHER -> << 0, 0, 0, 0 >>

\* Color::EncodeRGBA8 and the like: the bytes written at dst_pixel; none for an unknown format
EncodePixel(output_format, c) ==
    CASE output_format = RGBA8 -> << c[4], c[3], c[2], c[1] >>
      [] output_format = RGB8 -> << c[3], c[2], c[1] >>
      [] output_format = RGB565 ->
           LEBytes(Convert8To5(c[1]) * 2048 + Convert8To6(c[2]) * 32
                   + Convert8To5(c[3]), 2)
      [] output_format = RGB5A1 ->
           LEBytes(Convert8To5(c[1]) * 2048 + Convert8To5(c[2]) * 64
                   + Convert8To5(c[3]) * 2 + Convert8To1(c[4]), 2)
      [] output_format = RGBA4 ->
           LEBytes(Convert8To4(c[1]) * 4096 + Convert8To4(c[2]) * 256
                   + Convert8To4(c[3]) * 16 + Convert8To4(c[4]), 2)
      [] OTHER -> << >>

\* VideoCore::MortonInterleave
MortonInterleave(x, y) ==
    LET xlut == << 0, 1, 4, 5, 16, 17, 20, 21 >>
        ylut == << 0, 2, 8, 10, 32, 34, 40, 42 >>
    IN xlut[(x % 8) + 1] + ylut[(y % 8) + 1]

\* VideoCore::GetMortonOffset
GetMortonOffset(x, y, bytes_per_pixel) ==
    (MortonInterleave(x, y) + (x - (x % 8)) * 8) * bytes_per_pixel

\* Math::Vec4: operator+ and operator/ work per channel on the promoted type
\* (decltype(T{} + T{}) is int for u8), Cast<u8> converts each channel back
VecAdd(a, b) == [i \in 1 .. 4 |-> a[i] + b[i]]
VecDiv(a, n) == [i \in 1 .. 4 |-> a[i] \div n]
CastU8(a) == [i \in 1 .. 4 |-> a[i] % 256]

\* ((src_color + pixel) / 2).Cast<u8>()
Average2(a, b) == CastU8(VecDiv(VecAdd(a, b), 2))

\* Average4 with the sum cast to u8 before the division
Average4_CastsBeforeDividing(a, b, c, d) ==
    VecDiv(CastU8(VecAdd(VecAdd(a, b), VecAdd(c, d))), 4)

\* (((src_color + pixel1) + (pixel2 + pixel3)) / 4).Cast<u8>()
Average4(a, b, c, d) == CastU8(VecDiv(VecAdd(VecAdd(a, b), VecAdd(c, d)), 4))

----------------------------------------------------------------------------
(* The display-transfer engine, format-converting mode.                     *)

\* TransferConfig::ScalingMode
NoScale == 0
ScaleX == 1
ScaleXY == 2

\* the fields of display_transfer_config the pixel loop reads
DisplayTransferConfig(regs) ==
    LET flags == regs[dt_flags]
        scaling == Field(flags, 24, 2)
        horizontal_scale == IF scaling # NoScale THEN 1 ELSE 0
        vertical_scale == IF scaling = ScaleXY THEN 1 ELSE 0
    IN [input_width |-> Field(regs[dt_input_size], 0, 16),
        input_height |-> Field(regs[dt_input_size], 16, 16),
        output_width |-> Field(regs[dt_output_size], 0, 16) \div Pow2(horizontal_scale),
        output_height |-> Field(regs[dt_output_size], 16, 16) \div Pow2(vertical_scale),
        flip_vertically |-> Field(flags, 0, 1) = 1,
        input_linear |-> Field(flags, 1, 1) = 1,
        is_texture_copy |-> Field(flags, 3, 1) = 1,
        dont_swizzle |-> Field(flags, 5, 1) = 1,
        input_format |-> Field(flags, 8, 3),
        output_format |-> Field(flags, 12, 3),
        scaling |-> scaling,
        horizontal_scale |-> horizontal_scale,
        vertical_scale |-> vertical_scale]

\* y & ~7
Coarse(y) == y - (y % 8)

\* the body of the pixel loop for output position (x, y), y already flipped;
\* the pixel is sampled at (input_x, input_y)
TransferPixel(st, cfg, src_pointer, dst_pointer, x, y, input_x, input_y) ==
    LET dst_bpp == BytesPerPixel(cfg.output_format)
        src_bpp == BytesPerPixel(cfg.input_format)
        linear_src == (input_x + input_y * cfg.input_width) * src_bpp
        tiled_src == GetMortonOffset(input_x, input_y, src_bpp)
                     + Coarse(input_y) * (cfg.input_width * src_bpp)
        linear_dst == (x + y * cfg.output_width) * dst_bpp
        tiled_dst == GetMortonOffset(x, y, dst_bpp)
                     + Coarse(y) * (cfg.output_width * dst_bpp)
        src_offset == IF cfg.input_linear THEN linear_src ELSE tiled_src
        dst_offset == IF cfg.input_linear
                      THEN (IF ~cfg.dont_swizzle THEN tiled_dst ELSE linear_dst)
                      ELSE (IF ~cfg.dont_swizzle THEN linear_dst ELSE tiled_dst)
        src_pixel == src_pointer + src_offset
        samples == CASE cfg.scaling = ScaleX -> 2
                     [] cfg.scaling = ScaleXY -> 4
                     [] OTHER -> 1
        px(k) == DecodePixel(cfg.input_format, st.mem, src_pixel + k * src_bpp)
        src_color == CASE samples = 2 -> Average2(px(0), px(1))
                       [] samples = 4 -> Average4(px(0), px(1), px(2), px(3))
                       [] OTHER -> px(0)
        loaded == [st EXCEPT
                     !.fault = @ \/ (\E k \in 0 .. (samples * src_bpp - 1) :
                                        ~Mapped(src_pixel + k)),
                     !.events = Append(@, Ev("load", "", src_pixel,
                                             samples * src_bpp, 0))]
        bytes == EncodePixel(cfg.output_format, src_color)
    IN IF bytes = << >> THEN loaded
       ELSE Store(loaded, dst_pointer + dst_offset, bytes)

\* for (u32 y = 0; y < output_height; ++y)
\*     for (u32 x = 0; x < output_width; ++x) { ... }
\* The flip assigns to the loop variable y itself.
RECURSIVE PixelLoop(_, _, _, _, _, _)
PixelLoop(st, cfg, src_pointer, dst_pointer, x, y) ==
    IF y >= cfg.output_height \/ st.fault THEN st
    ELSE IF x >= cfg.output_width
    THEN PixelLoop(st, cfg, src_pointer, dst_pointer, 0, y + 1)
    ELSE LET input_x == x * Pow2(cfg.horizontal_scale)
             input_y == y * Pow2(cfg.vertical_scale)
             y2 == IF cfg.flip_vertically THEN cfg.output_height - y - 1 ELSE y
         IN PixelLoop(TransferPixel(st, cfg, src_pointer, dst_pointer, x, y2,
                                    input_x, input_y),
                      cfg, src_pointer, dst_pointer, x + 1, y2)

\* Unimplemented without the test of linear input
Unimplemented_ScalingOnly(cfg) == cfg.scaling > ScaleXY

\* the configurations the software path gives up on, before it touches
\* anything: a scaling mode past ScaleXY, and scaling of linear input
Unimplemented(cfg) ==
    cfg.scaling > ScaleXY \/ (cfg.input_linear /\ cfg.scaling # NoScale)

\* case GPU_REG_INDEX(display_transfer_config.trigger), the software path:
\* what runs when AccelerateDisplayTransfer declined.  done is FALSE where the
\* code leaves the switch with break.
SoftwareTransfer(st) ==
    LET cfg == DisplayTransferConfig(st.regs)
        input_address == DecodeAddressRegister(st.regs[dt_input_address])
        output_address == DecodeAddressRegister(st.regs[dt_output_address])
        src_pointer == GetPhysicalPointer(input_address)
        dst_pointer == GetPhysicalPointer(output_address)
        input_size == cfg.input_width * cfg.input_height
                      * BytesPerPixel(cfg.input_format)
        output_size == cfg.output_width * cfg.output_height
                       * BytesPerPixel(cfg.output_format)
    IN CASE cfg.is_texture_copy ->
              [st |-> TextureCopy(st, src_pointer, dst_pointer), done |-> FALSE]
         [] ~cfg.is_texture_copy /\ Unimplemented(cfg) ->
              [st |-> st, done |-> FALSE]
         [] OTHER ->
              [st |-> PixelLoop(
                        Call(Call(st, "RasterizerFlushRegion", input_address,
                                  input_size, 0),
                             "RasterizerFlushAndInvalidateRegion", output_address,
                             output_size, 0),
                        cfg, src_pointer, dst_pointer, 0, 0),
               done |-> TRUE]

\* g_regs.display_transfer_config.trigger = 0; SignalInterrupt(PPF);
TransferComplete(st) ==
    SignalInterrupt([st EXCEPT !.regs[dt_trigger] = 0], "PPF")

\* DisplayTransfer with the hook asked after the ranges are flushed
DisplayTransfer_FlushesFirst(st, accel) ==
    IF st.regs[dt_trigger] % 2 = 1
    THEN LET noted == IF st.debug_context
                      THEN Call(st, "OnEvent", 0, 0, 0) ELSE st
             flushed == Call(Call(noted, "RasterizerFlushRegion", 0, 0, 0),
                             "RasterizerFlushAndInvalidateRegion", 0, 0, 0)
             offered == Call(flushed, "AccelerateDisplayTransfer", 0, 0, 0)
             soft == SoftwareTransfer(offered)
         IN IF accel THEN TransferComplete(offered)
            ELSE IF soft.done THEN TransferComplete(soft.st)
            ELSE soft.st
    ELSE st

\* case GPU_REG_INDEX(display_transfer_config.trigger)
DisplayTransfer(st, accel) ==
    IF st.regs[dt_trigger] % 2 = 1
    THEN LET noted == IF st.debug_context
                      THEN Call(st, "OnEvent", 0, 0, 0) ELSE st
             offered == Call(noted, "AccelerateDisplayTransfer", 0, 0, 0)
             soft == SoftwareTransfer(offered)
         IN IF accel THEN TransferComplete(offered)
            ELSE IF soft.done THEN TransferComplete(soft.st)
            ELSE soft.st
    ELSE st

----------------------------------------------------------------------------
(* Command dispatch: Write's case for command_processor_config.trigger.     *)

\* CommandProcessor without the test of the trigger bit
CommandProcessor_IgnoresTrigger(st) ==
    IF TRUE
    THEN LET address == DecodeAddressRegister(st.regs[cp_address])
             buffer == GetPhysicalPointer(address)
             size == st.regs[cp_size]
             traced == IF st.debug_context
                       THEN Call(st, "MemoryAccessed", buffer, size * 4, address)
                       ELSE st
             processed == Call(traced, "ProcessCommandList", buffer, size, 0)
         IN [processed EXCEPT !.regs[cp_trigger] = 0]
    ELSE st

\* if (config.trigger & 1) { ... }
CommandProcessor(st) ==
    IF st.regs[cp_trigger] % 2 = 1
    THEN LET address == DecodeAddressRegister(st.regs[cp_address])
             buffer == GetPhysicalPointer(address)
             size == st.regs[cp_size]
             traced == IF st.debug_context
                       THEN Call(st, "MemoryAccessed", buffer, size * 4, address)
                       ELSE st
             processed == Call(traced, "ProcessCommandList", buffer, size, 0)
         IN [processed EXCEPT !.regs[cp_trigger] = 0]
    ELSE st

----------------------------------------------------------------------------
(* Read and Write.                                                          *)

\* index = (raw_addr - HW::VADDR_GPU) / 4 in u32 arithmetic: an address below
\* the base wraps to 2^32 - d, whose quarter is 2^30 - ceil(d / 4)
RegIndex(raw_addr) ==
    IF raw_addr >= VADDR_GPU
    THEN (raw_addr - VADDR_GPU) \div 4
    ELSE Pow2(30) - ((VADDR_GPU - raw_addr + 3) \div 4)

\* Rejected without the test of the access width
Rejected_IndexOnly(raw_addr, width) == RegIndex(raw_addr) >= NumIds

\* the test that makes Read and Write return early
Rejected(raw_addr, width) == RegIndex(raw_addr) >= NumIds \/ width # 32

\* Read<T>(var, raw_addr): the value of var when Read returns
Read(regs, var, raw_addr, width) ==
    IF Rejected(raw_addr, width) THEN var ELSE regs[RegIndex(raw_addr)]

\* the engine a stored word may run: switch (index) { ... }
Dispatch(st, index, accel) ==
    CASE index = fill_control(0) -> MemoryFill(st, 0, accel)
      [] index = fill_control(1) -> MemoryFill(st, 1, accel)
      [] index = dt_trigger -> DisplayTransfer(st, accel)
      [] index = cp_trigger -> CommandProcessor(st)
      [] OTHER -> st

\* recorder->RegisterWritten<T>(addr + 0x1EF00000 - 0x1EC00000 + 0x10100000, data)
NotifyTracer(st, raw_addr, data) ==
    IF st.debug_context /\ ~st.fault
    THEN Call(st, "RegisterWritten",
              (raw_addr - VADDR_GPU) + 519045120 - 515899392 + 269484032, data, 0)
    ELSE st

\* Write<T>(addr, data).  st holds the registers and the memory; the result
\* also holds the calls made, in order.  accel is what the rasterizer's
\* Accelerate* hook answers if it is asked.
Write(st, raw_addr, width, data, accel) ==
    IF Rejected(raw_addr, width) THEN st
    ELSE NotifyTracer(
           Dispatch([st EXCEPT !.regs[RegIndex(raw_addr)] = data],
                    RegIndex(raw_addr), accel),
           raw_addr, data)

----------------------------------------------------------------------------
(* The frame event: VBlankCallback, Init.                                   *)

\* 268MHz CPU clocks / 60Hz frames per second
frame_ticks == 268123480 \div 60

\* a & b
RECURSIVE BitAnd(_, _)
BitAnd(a, b) ==
    IF a = 0 \/ b = 0 THEN 0
    ELSE (a % 2) * (b % 2) + 2 * BitAnd(a \div 2, b \div 2)

\* g_skip_frame after the frame counter became count
SkipFrame(count, skip) == BitAnd(count, skip) # 0

\* SwapsBuffers without the case of frame skipping disabled
SwapsBuffers_TransitionsOnly(skip, last_skip, this_skip) ==
    ((skip # 1) # last_skip) /\ last_skip # this_skip

\* the test that guards SwapBuffers
SwapsBuffers(skip, last_skip, this_skip) ==
    (((skip # 1) # last_skip) /\ last_skip # this_skip) \/ skip = 0

\* NextDelay without the compensation for lateness
NextDelay_IgnoresLateness(cycles_late) == frame_ticks

\* the delay VBlankCallback hands to CoreTiming::ScheduleEvent
NextDelay(cycles_late) == frame_ticks - cycles_late

\* g_regs after GPU::Init: zeroed, then the two framebuffer configurations
InitRegs ==
    [i \in RegCells |->
       CASE i = framebuffer_config(0) + 0 -> 240 + 400 * 65536
         [] i = framebuffer_config(0) + 3 -> 404643840
         [] i = framebuffer_config(0) + 4 -> 404932608
         [] i = framebuffer_config(0) + 5 -> RGB8
         [] i = framebuffer_config(0) + 13 -> 3 * 240
         [] i = framebuffer_config(0) + 14 -> 405221376
         [] i = framebuffer_config(0) + 15 -> 405510144
         [] i = framebuffer_config(1) + 0 -> 240 + 320 * 65536
         [] i = framebuffer_config(1) + 3 -> 407433216
         [] i = framebuffer_config(1) + 4 -> 407664640
         [] i = framebuffer_config(1) + 5 -> RGB8
         [] i = framebuffer_config(1) + 13 -> 3 * 240
         [] OTHER -> 0]

\* VBlankCallback that reschedules only after a frame that was not skipped
VBlankCallback_StopsWhenSkipped(t, cycles_late) ==
    LET count == t.frame_count + 1
        last_skip == t.g_skip_frame
        this_skip == SkipFrame(count, t.frame_skip)
        st0 == [events |-> << >>]
        swapped == IF SwapsBuffers(t.frame_skip, last_skip, this_skip)
                   THEN Call(st0, "SwapBuffers", 0, 0, 0) ELSE st0
        signalled_both == SignalInterrupt(SignalInterrupt(swapped, "PDC0"), "PDC1")
        st == IF this_skip THEN signalled_both
              ELSE Call(signalled_both, "ScheduleEvent", NextDelay(cycles_late), 0, 0)
    IN [frame_count |-> count, g_skip_frame |-> this_skip,
        last_skip_frame |-> last_skip, events |-> st.events]

\* VBlankCallback(userdata, cycles_late) on the frame state t
VBlankCallback(t, cycles_late) ==
    LET count == t.frame_count + 1
        last_skip == t.g_skip_frame
        this_skip == SkipFrame(count, t.frame_skip)
        st0 == [events |-> << >>]
        swapped == IF SwapsBuffers(t.frame_skip, last_skip, this_skip)
                   THEN Call(st0, "SwapBuffers", 0, 0, 0) ELSE st0
        st == Call(SignalInterrupt(SignalInterrupt(swapped, "PDC0"), "PDC1"),
                   "ScheduleEvent", NextDelay(cycles_late), 0, 0)
    IN [frame_count |-> count, g_skip_frame |-> this_skip,
        last_skip_frame |-> last_skip, events |-> st.events]

\* Shutdown(): it logs, and leaves the events CoreTiming holds as they are
Shutdown(events) == events

----------------------------------------------------------------------------
(* The state.                                                               *)

VARIABLES
    g_regs,           \* Regs g_regs: the register file, a word per index
    memory,           \* the mapped physical memory, a byte per address
    debug_context,    \* whether Pica::g_debug_context and its recorder are set
    frame_skip,       \* Settings::values.frame_skip
    frame_count,      \* frames drawn
    g_skip_frame,     \* the current frame was skipped
    last_skip_frame,  \* the last frame was skipped
    now,              \* CoreTiming's clock when the last event fired
    pending,          \* the target times of the scheduled vblank_event firings
    crashed,          \* a handler ran into undefined behaviour (st.fault): the
                      \* process is followed no further
    last,             \* the last call: its arguments, the registers it found,
                      \* the calls it made in order, and what Read left in var
    signalled,        \* how often each interrupt has been signalled
    completed,        \* how many operations of each kind have been triggered
                      \* and ran to their completion
    swaps,            \* how often SwapBuffers has been called
    nops,             \* calls so far
    config,           \* EmuWindow::config: the configuration requested
    active_config     \* EmuWindow::active_config: the configuration in force

vars == << g_regs, memory, debug_context, frame_skip, frame_count, g_skip_frame,
           last_skip_frame, now, pending, crashed, last, signalled, completed,
           swaps, nops, config, active_config >>

\* the window's variables
window == << config, active_config >>
\* what they hold while no EmuWindow has been constructed
NoWindow ==
    [fullscreen |-> FALSE, res_width |-> 0, res_height |-> 0,
     min_client_area_size |-> << 0, 0 >>]

InterruptIds == {"PSC0", "PSC1", "PDC0", "PDC1", "PPF"}
OpKinds == {"FillA", "FillB", "Transfer", "Command"}

\* the address of the cell at index
Addr(index) == VADDR_GPU + 4 * index

\* how many of the calls in events signal interrupt id
Signals(events, id) ==
    Cardinality({i \in 1 .. Len(events) :
                   events[i].call = "SignalInterrupt" /\ events[i].id = id})
\* how many of the calls in events are `call`
Calls(events, call) ==
    Cardinality({i \in 1 .. Len(events) : events[i].call = call})

\* the engine whose trigger bit a write sets, "None" if it sets none
Triggered(raw_addr, width, data) ==
    IF Rejected(raw_addr, width) \/ data % 2 = 0 THEN "None"
    ELSE CASE RegIndex(raw_addr) = fill_control(0) -> "FillA"
           [] RegIndex(raw_addr) = fill_control(1) -> "FillB"
           [] RegIndex(raw_addr) = dt_trigger -> "Transfer"
           [] RegIndex(raw_addr) = cp_trigger -> "Command"
           [] OTHER -> "None"

\* a transfer configuration the software path rejects as unimplemented
Unsupported(regs) ==
    LET cfg == DisplayTransferConfig(regs) IN
    ~cfg.is_texture_copy /\ Unimplemented(cfg)

\* the kind of operation a write triggers and lets complete: a fill with a
\* start address, a transfer that is accelerated or has a configuration the
\* software path carries out, a command list
Completed(regs, raw_addr, width, data, accel) ==
    LET kind == Triggered(raw_addr, width, data)
        tc == TextureCopyConfig(regs)
    IN CASE kind = "FillA" /\ regs[fill_address_start(0)] = 0 -> "None"
         [] kind = "FillB" /\ regs[fill_address_start(1)] = 0 -> "None"
         [] kind = "Transfer" /\ ~accel /\ Unsupported(regs) -> "None"
         [] kind = "Transfer" /\ ~accel /\ DisplayTransferConfig(regs).is_texture_copy
            /\ (tc.input_width = 0 \/ tc.output_width = 0) -> "None"
         [] OTHER -> kind

NoCall ==
    [op |-> "Init", addr |-> 0, width |-> 0, data |-> 0, accel |-> FALSE,
     var |-> 0, events |-> << >>, fault |-> FALSE, regs |-> InitRegs]

\* the state GPU::Init leaves, with the registers in `regs` (a register file
\* that earlier writes have configured) and the memory holding mem
InitGPU(regs, mem, debug, skip) ==
    /\ g_regs = regs
    /\ memory = mem
    /\ debug_context = debug
    /\ frame_skip = skip
    /\ frame_count = 0
    /\ g_skip_frame = FALSE
    /\ last_skip_frame = FALSE
    /\ now = 0
    /\ pending = << frame_ticks >>
    /\ crashed = FALSE
    /\ last = [NoCall EXCEPT !.regs = regs]
    /\ signalled = [id \in InterruptIds |-> 0]
    /\ completed = [k \in OpKinds |-> 0]
    /\ swaps = 0
    /\ nops = 0

\* the same with the memory of MemInit, and no window
InitWith(regs, debug, skip) ==
    /\ InitGPU(regs, MemInit, debug, skip)
    /\ config = NoWindow
    /\ active_config = NoWindow

\* WriteCall with a write that counts as a frame
WriteCall_CountsFrames(raw_addr, width, data, accel) ==
    LET st == Write([regs |-> g_regs, mem |-> memory, events |-> << >>,
                     fault |-> FALSE, debug_context |-> debug_context],
                    raw_addr, width, data, accel)
        kind == Completed(g_regs, raw_addr, width, data, accel)
    IN /\ ~crashed
       /\ nops < MaxOps
       /\ g_regs' = st.regs
       /\ memory' = st.mem
       /\ crashed' = st.fault
       /\ frame_count' = frame_count + 1
       /\ last' = [op |-> "Write", addr |-> raw_addr, width |-> width,
                   data |-> data, accel |-> accel, var |-> 0,
                   events |-> st.events, fault |-> st.fault, regs |-> g_regs]
       /\ signalled' = [id \in InterruptIds |-> signalled[id] + Signals(st.events, id)]
       /\ completed' = [k \in OpKinds |-> completed[k] + (IF k = kind THEN 1 ELSE 0)]
       /\ nops' = nops + 1
       /\ UNCHANGED << debug_context, frame_skip, g_skip_frame,
                       last_skip_frame, now, pending, swaps, window >>

\* a call of Write<T>(raw_addr, data), T of `width` bits
WriteCall(raw_addr, width, data, accel) ==
    LET st == Write([regs |-> g_regs, mem |-> memory, events |-> << >>,
                     fault |-> FALSE, debug_context |-> debug_context],
                    raw_addr, width, data, accel)
        kind == Completed(g_regs, raw_addr, width, data, accel)
    IN /\ ~crashed
       /\ nops < MaxOps
       /\ g_regs' = st.regs
       /\ memory' = st.mem
       /\ crashed' = st.fault
       /\ last' = [op |-> "Write", addr |-> raw_addr, width |-> width,
                   data |-> data, accel |-> accel, var |-> 0,
                   events |-> st.events, fault |-> st.fault, regs |-> g_regs]
       /\ signalled' = [id \in InterruptIds |-> signalled[id] + Signals(st.events, id)]
       /\ completed' = [k \in OpKinds |-> completed[k] + (IF k = kind THEN 1 ELSE 0)]
       /\ nops' = nops + 1
       /\ UNCHANGED << debug_context, frame_skip, frame_count, g_skip_frame,
                       last_skip_frame, now, pending, swaps, window >>

\* a call of Read<T>(var, raw_addr), T of `width` bits
ReadCall(raw_addr, width, var) ==
    /\ ~crashed
    /\ nops < MaxOps
    /\ last' = [op |-> "Read", addr |-> raw_addr, width |-> width, data |-> var,
                accel |-> FALSE, var |-> Read(g_regs, var, raw_addr, width),
                events |-> << >>, fault |-> FALSE, regs |-> g_regs]
    /\ nops' = nops + 1
    /\ UNCHANGED << g_regs, memory, debug_context, frame_skip, frame_count,
                    g_skip_frame, last_skip_frame, now, pending, crashed,
                    signalled, completed, swaps, window >>

\* CoreTiming: an event whose target time is `target` runs its callback when
\* the clock reads target + cycles_late
FiredAt(target, cycles_late) == target + cycles_late
\* CoreTiming::ScheduleEvent(cycles_into_future, event) called when the clock
\* reads ticks: the target time of the event
ScheduleEvent(ticks, cycles_into_future) == ticks + cycles_into_future
\* the target times of the events that the calls in events schedule at ticks
Scheduled(events, ticks) ==
    LET calls == SelectSeq(events, LAMBDA e : e.call = "ScheduleEvent")
    IN [i \in 1 .. Len(calls) |-> ScheduleEvent(ticks, calls[i].a)]

\* CoreTiming fires the scheduled vblank_event cycles_late after its target
VBlankStep(cycles_late) ==
    LET t == VBlankCallback([frame_count |-> frame_count,
                             g_skip_frame |-> g_skip_frame,
                             last_skip_frame |-> last_skip_frame,
                             frame_skip |-> frame_skip], cycles_late)
        fired == FiredAt(Head(pending), cycles_late)
    IN /\ ~crashed
       /\ pending # << >>
       /\ frame_count' = t.frame_count
       /\ g_skip_frame' = t.g_skip_frame
       /\ last_skip_frame' = t.last_skip_frame
       /\ now' = fired
       /\ pending' = Tail(pending) \o Scheduled(t.events, fired)
       /\ swaps' = swaps + Calls(t.events, "SwapBuffers")
       /\ signalled' = [id \in InterruptIds |-> signalled[id] + Signals(t.events, id)]
       /\ last' = [op |-> "VBlankCallback", addr |-> 0, width |-> 0,
                   data |-> cycles_late, accel |-> FALSE, var |-> 0,
                   events |-> t.events, fault |-> FALSE, regs |-> g_regs]
       /\ nops' = nops + 1
       /\ UNCHANGED << g_regs, memory, debug_context, frame_skip, crashed,
                       completed, window >>

\* a firing among the register traffic
VBlankFire(cycles_late) == nops < MaxOps /\ VBlankStep(cycles_late)

----------------------------------------------------------------------------
(* Register traffic: reads, writes and frame events, from the state of      *)
(* GPU::Init or from a register file that earlier writes have configured.   *)

\* regs with the cells of `cells` (a function from indices to words) written
Configure(regs, cells) ==
    [i \in DOMAIN regs |-> IF i \in DOMAIN cells THEN cells[i] ELSE regs[i]]

\* the address register value of the first mapped byte
Base == MemBase \div 8

\* both fill engines, the transfer engine and the command processor set up,
\* short of their triggers; flags is display_transfer_config.flags
EnginesConfigured(flags) ==
    Configure(InitRegs,
        fill_address_start(0) :> (Base + 1) @@ fill_address_end(0) :> (Base + 3)
        @@ fill_value(0) :> 67305985
        @@ fill_address_start(1) :> (Base + 4) @@ fill_address_end(1) :> (Base + 5)
        @@ fill_value(1) :> 1541
        @@ dt_input_address :> Base @@ dt_output_address :> (Base + 12)
        @@ dt_output_size :> (2 + 2 * 65536) @@ dt_input_size :> (2 + 2 * 65536)
        @@ dt_flags :> flags
        @@ dt_texture_copy_size :> 32
        @@ dt_texture_copy_input_size :> 1
        @@ dt_texture_copy_output_size :> (1 + 1 * 65536)
        @@ cp_size :> 4 @@ cp_address :> (Base + 8))

\* flags: a display transfer, a texture copy, linear input with ScaleX
SpecRegs == {InitRegs} \cup {EnginesConfigured(f) : f \in {0, 8, 2 + Pow2(24)}}

\* the addresses of the traffic: a plain cell, the same cell misaligned,
\* configuration cells, the four trigger cells, a trigger cell misaligned, the
\* first address past the register file and one below its base
SpecAddrs ==
    {Addr(0), Addr(0) + 1, Addr(fill_address_start(0)), Addr(fill_control(0)),
     Addr(fill_control(1)), Addr(dt_trigger), Addr(dt_trigger) + 2,
     Addr(cp_trigger), Addr(NumIds), VADDR_GPU - 4}
\* the access widths other than 32 bits
NarrowWidths == {8, 16, 64}
\* what var holds when Read is called
VarBefore == 170

Init == \E regs \in SpecRegs : InitWith(regs, TRUE, 1)

\* a 32-bit write of the trigger bit, or of a word without it; the hook's
\* answer matters only where a hook is asked
Write32 ==
    \E a \in SpecAddrs, d \in {1, 2}, accel \in BOOLEAN :
        /\ accel => Triggered(a, 32, d) \in {"FillA", "FillB", "Transfer"}
        /\ WriteCall(a, 32, d, accel)

WriteNarrow ==
    \E a \in {Addr(0), Addr(fill_control(0)), Addr(NumIds)}, w \in NarrowWidths :
        WriteCall(a, w, 1, FALSE)

Read32 ==
    \E a \in {Addr(0), Addr(0) + 1, Addr(fill_control(0)), Addr(NumIds), VADDR_GPU - 4} :
        ReadCall(a, 32, VarBefore)

ReadNarrow ==
    \E a \in {Addr(0), Addr(NumIds)}, w \in NarrowWidths : ReadCall(a, w, VarBefore)

VBlank == VBlankFire(0)

Next == Write32 \/ WriteNarrow \/ Read32 \/ ReadNarrow \/ VBlank

Spec == Init /\ [][Next]_vars

----------------------------------------------------------------------------
(* Claims about register traffic, checked under Spec.                       *)

\* an address inside the register file
InRange(a) == a >= VADDR_GPU /\ a < VADDR_GPU + 4 * NumIds
\* what a 32-bit Read(addr) returns from regs
Read32Of(regs, a) == Read(regs, VarBefore, a, 32)
\* the last call was an accepted 32-bit write
WroteWord == last.op = "Write" /\ last.width = 32 /\ InRange(last.addr)

\* C1: for every in-range address of a cell that is no trigger cell, a 32-bit
\* Read(addr) returns the word of the last 32-bit Write(addr, v), and a call
\* that is no write to addr (a write to another address, a frame event, a
\* read) leaves what Read(addr) returns unchanged.
C1_RoundTripUntilRewritten ==
    \A a \in SpecAddrs :
        (InRange(a) /\ a % 4 = 0 /\ (a - VADDR_GPU) \div 4 \notin TriggerCells) =>
            IF WroteWord /\ last.addr = a
            THEN Read32Of(g_regs, a) = last.data
            ELSE Read32Of(g_regs, a) = Read32Of(last.regs, a)

\* C2: a Read or Write of a width other than 32 bits, or of an address below
\* the base or past the last cell, changes no register and no memory, signals
\* no interrupt, calls no collaborator (the tracer included), leaves var as
\* it was, and leaves the subsystem running.
C2_RejectedAccessIsNoOp ==
    [][(last'.op \in {"Read", "Write"}
        /\ (last'.width # 32 \/ ~InRange(last'.addr)))
       => (/\ g_regs' = g_regs
           /\ memory' = memory
           /\ signalled' = signalled
           /\ completed' = completed
           /\ last'.events = << >>
           /\ (last'.op = "Read" => last'.var = last'.data)
           /\ ~crashed')]_vars
\* a 32-bit write below the base, whose index wraps around, has been rejected
C2_Witness ==
    last.op = "Write" /\ last.width = 32 /\ last.addr < VADDR_GPU /\ nops = 1

\* C3: a 32-bit Write or Read of an in-range address that is no multiple of
\* 4 is a no-op: no register changes, no engine runs, Read returns no cell.
C3_MisalignedAccessIsNoOp ==
    (last.op \in {"Read", "Write"} /\ last.width = 32 /\ InRange(last.addr)
     /\ last.addr % 4 # 0)
    => (/\ g_regs = last.regs
        /\ last.events = << >>
        /\ (last.op = "Read" => last.var = last.data))

\* C4: once a Write that set the trigger bit of a trigger cell has returned,
\* with a configuration the engine carries out, the bit reads back as 0.
C4_TriggerReadsBackZero ==
    (WroteWord /\ ~crashed
     /\ Triggered(last.addr, last.width, last.data) # "None"
     /\ ~(~last.accel /\ Unsupported(last.regs)))
    => Read32Of(g_regs, last.addr) % 2 = 0

\* C6: every interrupt has been signalled as often as operations of its
\* kind have completed (PSC0: fills of engine A with a start address, PSC1:
\* those of engine B, PPF: transfers), and a write signals no interrupt but
\* the one of the operation it completes, once; command dispatch signals none.
C6_InterruptPerCompletion ==
    /\ signalled["PSC0"] = completed["FillA"]
    /\ signalled["PSC1"] = completed["FillB"]
    /\ signalled["PPF"] = completed["Transfer"]
    /\ (last.op = "Write" /\ ~crashed) =>
          LET kind == Completed(last.regs, last.addr, last.width, last.data,
                                last.accel)
              own == CASE kind = "FillA" -> {"PSC0"}
                       [] kind = "FillB" -> {"PSC1"}
                       [] kind = "Transfer" -> {"PPF"}
                       [] OTHER -> {}
          IN \A id \in InterruptIds :
                Signals(last.events, id) = IF id \in own THEN 1 ELSE 0
\* a software texture copy and a fill of engine B have both completed
C6_Witness ==
    /\ completed["Transfer"] = 1
    /\ completed["FillB"] = 1
    /\ ~last.accel

----------------------------------------------------------------------------
(* Memory fills: both engines configured with a range and a value, then     *)
(* triggered with every combination of the width flags.                     *)

\* the registers the fills are tried with: the ranges (a zero start among
\* them), and the values of engine A and B, bytes 01 02 03 04 and 0A 0B 0C 0D
FillRegs ==
    {Configure(InitRegs,
        fill_address_start(0) :> s @@ fill_address_end(0) :> e
        @@ fill_value(0) :> 67305985
        @@ fill_address_start(1) :> s @@ fill_address_end(1) :> e
        @@ fill_value(1) :> 218893066) :
       s \in {0, Base + 1, Base + 2}, e \in {Base + 1, Base + 2, Base + 4}}

InitFill == \E regs \in FillRegs : InitWith(regs, FALSE, 1)

\* a write of the control word with the trigger bit set, and no width flag,
\* fill_24bit, fill_32bit or both
FillTrigger ==
    \E n \in {0, 1}, flags \in {0, 256, 512, 768}, accel \in BOOLEAN :
        /\ accel => g_regs[fill_address_start(n)] # 0
        /\ WriteCall(Addr(fill_control(n)), 32, flags + 1, accel)

\* a write of the control word without the trigger bit
FillControl ==
    \E n \in {0, 1} : WriteCall(Addr(fill_control(n)), 32, 512, FALSE)

NextFill == FillTrigger \/ FillControl

SpecFill == InitFill /\ [][NextFill]_vars

\* the engine the last call triggered a fill of; -1 if it triggered none
FillEngine ==
    CASE last.op = "Write" /\ Triggered(last.addr, last.width, last.data) = "FillA" -> 0
      [] last.op = "Write" /\ Triggered(last.addr, last.width, last.data) = "FillB" -> 1
      [] OTHER -> -1
\* the range and the pattern of that fill
FillStart == DecodeAddressRegister(last.regs[fill_address_start(FillEngine)])
FillEnd == DecodeAddressRegister(last.regs[fill_address_end(FillEngine)])
FillValue == last.regs[fill_value(FillEngine)]
\* the last call ran the software fill over a range that is not empty
SoftwareFilled ==
    /\ FillEngine # -1
    /\ last.regs[fill_address_start(FillEngine)] # 0
    /\ ~last.accel
    /\ ~crashed
    /\ FillEnd > FillStart
\* the accesses to raw memory among the calls
MemoryAccesses(events) ==
    {i \in 1 .. Len(events) : events[i].call \in {"store", "memcpy", "load"}}
\* every byte of [FillStart, FillEnd) holds the pattern `bytes`, repeated
Patterned(bytes) ==
    \A p \in FillStart .. (FillEnd - 1) :
        memory[p] = bytes[((p - FillStart) % Len(bytes)) + 1]

\* C5 as stated: a fill triggered with address_start = 0 writes no memory and
\* asks neither hook, clears the trigger bit, sets finished, and signals the
\* interrupt of its engine.
C5_ZeroStartSignals ==
    (FillEngine # -1 /\ last.regs[fill_address_start(FillEngine)] = 0)
    => (/\ MemoryAccesses(last.events) = {}
        /\ Calls(last.events, "AccelerateFill") = 0
        /\ Calls(last.events, "RasterizerFlushAndInvalidateRegion") = 0
        /\ Field(g_regs[fill_control(FillEngine)], 0, 1) = 0
        /\ Field(g_regs[fill_control(FillEngine)], 1, 1) = 1
        /\ Signals(last.events, FillInterrupt(FillEngine)) = 1)

\* C5, amended: a fill triggered with address_start = 0 writes no memory and
\* asks neither hook, clears the trigger bit and sets finished, and signals
\* no interrupt.
C5_ZeroStartCompletesSilently ==
    (FillEngine # -1 /\ last.regs[fill_address_start(FillEngine)] = 0)
    => (/\ MemoryAccesses(last.events) = {}
        /\ Calls(last.events, "AccelerateFill") = 0
        /\ Calls(last.events, "RasterizerFlushAndInvalidateRegion") = 0
        /\ Field(g_regs[fill_control(FillEngine)], 0, 1) = 0
        /\ Field(g_regs[fill_control(FillEngine)], 1, 1) = 1
        /\ \A id \in InterruptIds : Signals(last.events, id) = 0)
\* engine B has been triggered with address_start = 0
C5_Witness ==
    FillEngine = 1 /\ last.regs[fill_address_start(1)] = 0 /\ last.data = 513

\* C7: with only the 32-bit flag set, a start address, the hook declining,
\* the fill leaves every 4-byte group of [start, end) equal to the
\* little-endian bytes of the value, (end - start) / 4 of them, and no byte
\* outside [start, end) changes.
C7_Fill32Pattern ==
    [][(SoftwareFilled /\ last.data = 513)'
       => /\ Patterned(<< FillValue % 256, (FillValue \div 256) % 256,
                          (FillValue \div 65536) % 256,
                          (FillValue \div 16777216) % 256 >>)'
          /\ Calls(last'.events, "store") = (FillEnd' - FillStart') \div 4
          /\ \A p \in DOMAIN memory :
                (p < FillStart' \/ p >= FillEnd') => memory'[p] = memory[p]]_vars
\* engine A has filled 24 bytes with six copies of 01 02 03 04
C7_Witness ==
    /\ SoftwareFilled /\ last.data = 513 /\ FillEngine = 0
    /\ FillEnd - FillStart = 24
    /\ memory[FillStart + 20] = 1 /\ memory[FillStart + 23] = 4

\* C8 as stated: with both width flags set the software fill writes the
\* 32-bit pattern.
C8_WiderWins ==
    (SoftwareFilled /\ last.data = 769)
    => Patterned(LEBytes(FillValue, 4))

\* C8, amended: with both width flags set the 24-bit pattern wins: the
\* software fill writes the R, G, B tuple whenever fill_24bit is set, the
\* 32-bit pattern when fill_32bit alone is set, and the 16-bit pattern only
\* when neither flag is set.
C8_Fill24Wins ==
    SoftwareFilled
    => Patterned(CASE Field(last.data, 8, 1) = 1 ->
                        << FillValue % 256, (FillValue \div 256) % 256,
                           (FillValue \div 65536) % 256 >>
                   [] Field(last.data, 8, 1) = 0 /\ Field(last.data, 9, 1) = 1 ->
                        LEBytes(FillValue, 4)
                   [] OTHER -> LEBytes(FillValue % 65536, 2))
\* a fill with both flags set has run over 24 bytes
C8_Witness ==
    SoftwareFilled /\ last.data = 769 /\ FillEnd - FillStart = 24

----------------------------------------------------------------------------
(* Texture copies: the transfer engine configured for a strided byte copy   *)
(* from the lower half of the memory to its upper half, then triggered.     *)

\* bytes of each half of the memory
HalfSize == MemSize \div 2
\* row widths and gaps, in units of 16 bytes
CopyWidths == {1, 2}
CopyGaps == {0, 1}
\* the strided range of `size` payload bytes stays inside one half
Fits(size, width, gap) ==
    size = 0 \/ (size - 1) + ((size - 1) \div (16 * width)) * (16 * gap) < HalfSize

CopyRegs ==
    {Configure(InitRegs,
        dt_input_address :> Base @@ dt_output_address :> (Base + HalfSize \div 8)
        @@ dt_flags :> 8
        @@ dt_texture_copy_size :> size
        @@ dt_texture_copy_input_size :> (iw + ig * 65536)
        @@ dt_texture_copy_output_size :> (ow + og * 65536)) :
       size \in {0, 16, 24, 40, 64}, iw \in CopyWidths, ig \in CopyGaps,
       ow \in CopyWidths, og \in CopyGaps}

InitCopy ==
    \E regs \in CopyRegs :
        /\ Fits(regs[dt_texture_copy_size],
                Field(regs[dt_texture_copy_input_size], 0, 16),
                Field(regs[dt_texture_copy_input_size], 16, 16))
        /\ Fits(regs[dt_texture_copy_size],
                Field(regs[dt_texture_copy_output_size], 0, 16),
                Field(regs[dt_texture_copy_output_size], 16, 16))
        /\ InitWith(regs, FALSE, 1)

\* a write of the transfer trigger
CopyTrigger ==
    \E accel \in BOOLEAN : WriteCall(Addr(dt_trigger), 32, 1, accel)

SpecCopy == InitCopy /\ [][CopyTrigger]_vars

\* the last call ran the software texture copy with row widths that are not 0
SoftwareCopied ==
    /\ last.op = "Write"
    /\ Triggered(last.addr, last.width, last.data) = "Transfer"
    /\ Field(last.regs[dt_flags], 3, 1) = 1
    /\ ~last.accel
    /\ ~crashed
    /\ Field(last.regs[dt_texture_copy_input_size], 0, 16) # 0
    /\ Field(last.regs[dt_texture_copy_output_size], 0, 16) # 0

\* the bytes the memcpy calls among events moved, in order: << source, destination >>
RECURSIVE CopiedBytes(_)
CopiedBytes(events) ==
    IF events = << >> THEN << >>
    ELSE LET e == Head(events) IN
         (IF e.call = "memcpy"
          THEN [k \in 1 .. e.c |-> << e.b + (k - 1), e.a + (k - 1) >>]
          ELSE << >>) \o CopiedBytes(Tail(events))

\* C9: a software texture copy with row widths that are not 0 copies size
\* bytes in all, and byte k of them is read at source offset
\* k + (k div input_width) * input_gap and written at destination offset
\* k + (k div output_width) * output_gap.
C9_CopyByteMapping ==
    SoftwareCopied =>
        LET size == last.regs[dt_texture_copy_size]
            input_width == 16 * Field(last.regs[dt_texture_copy_input_size], 0, 16)
            input_gap == 16 * Field(last.regs[dt_texture_copy_input_size], 16, 16)
            output_width == 16 * Field(last.regs[dt_texture_copy_output_size], 0, 16)
            output_gap == 16 * Field(last.regs[dt_texture_copy_output_size], 16, 16)
            src == 8 * last.regs[dt_input_address]
            dst == 8 * last.regs[dt_output_address]
            moved == CopiedBytes(last.events)
        IN /\ Len(moved) = size
           /\ \A k \in 0 .. (size - 1) :
                 /\ moved[k + 1] = << src + k + (k \div input_width) * input_gap,
                                     dst + k + (k \div output_width) * output_gap >>
                 /\ memory[dst + k + (k \div output_width) * output_gap]
                    = memory[src + k + (k \div input_width) * input_gap]
\* 64 bytes have been copied from rows of 32 bytes to rows of 16, in 4 chunks
C9_Witness ==
    /\ SoftwareCopied
    /\ last.regs[dt_texture_copy_size] = 64
    /\ last.regs[dt_texture_copy_input_size] = 2
    /\ last.regs[dt_texture_copy_output_size] = 1
    /\ Calls(last.events, "memcpy") = 4
    /\ Signals(last.events, "PPF") = 1

----------------------------------------------------------------------------
(* Display transfers: the transfer engine configured for a format-          *)
(* converting transfer from the lower half of the memory to its upper half, *)
(* in every addressing and scaling mode, then triggered.                    *)

\* display_transfer_config.flags: RGBA8 to RGBA8 and RGB565 to RGB8
TransferFlags ==
    {flip + 2 * linear + 32 * raw + 256 * f[1] + 4096 * f[2] + Pow2(24) * scaling :
       flip \in {0, 1}, linear \in {0, 1}, raw \in {0, 1},
       f \in {<< RGBA8, RGBA8 >>, << RGB565, RGB8 >>}, scaling \in 0 .. 3}

\* the size registers hold width + height * 65536
TransferRegs ==
    {Configure(InitRegs,
        dt_input_address :> Base @@ dt_output_address :> (Base + HalfSize \div 8)
        @@ dt_output_size :> size @@ dt_input_size :> size
        @@ dt_flags :> flags) :
       size \in {2 + 2 * 65536, 3 + 2 * 65536}, flags \in TransferFlags}

InitTransfer == \E regs \in TransferRegs : InitWith(regs, FALSE, 1)

SpecTransfer == InitTransfer /\ [][CopyTrigger]_vars

\* the last call triggered a display transfer (no texture copy) whose
\* configuration scales linear input, or has a scaling mode past the two defined
TriggeredUnsupported ==
    /\ last.op = "Write"
    /\ Triggered(last.addr, last.width, last.data) = "Transfer"
    /\ Field(last.regs[dt_flags], 3, 1) = 0
    /\ \/ Field(last.regs[dt_flags], 24, 2) = 3
       \/ Field(last.regs[dt_flags], 1, 1) = 1 /\ Field(last.regs[dt_flags], 24, 2) # 0
\* the call touched no raw memory, flushed and invalidated nothing and
\* signalled no interrupt
NothingDone ==
    /\ MemoryAccesses(last.events) = {}
    /\ Calls(last.events, "RasterizerFlushRegion") = 0
    /\ Calls(last.events, "RasterizerFlushAndInvalidateRegion") = 0
    /\ \A id \in InterruptIds : Signals(last.events, id) = 0

\* C10 as stated: a triggered display transfer with linear input and scaling,
\* or an undefined scaling mode, does nothing whatever the acceleration hook
\* answers: no memory access, no flush, no PPF.
C10_UnsupportedNeverRuns == TriggeredUnsupported => NothingDone

\* C10, amended: such a transfer does nothing when the acceleration hook,
\* which is asked first, declines it: no memory access, no flush, no PPF.
\* (When the hook accepts, the accelerator has carried the transfer out and
\* PPF is signalled.)
C10_UnsupportedFailsWhenDeclined ==
    (TriggeredUnsupported /\ ~last.accel) => NothingDone
\* a declined transfer of linear input with ScaleX has been triggered
C10_Witness ==
    /\ TriggeredUnsupported /\ ~last.accel
    /\ Field(last.regs[dt_flags], 1, 1) = 1
    /\ Field(last.regs[dt_flags], 24, 2) = ScaleX
    /\ Calls(last.events, "AccelerateDisplayTransfer") = 1

\* the last call ran the software display transfer to its end
SoftwareTransferred ==
    /\ last.op = "Write"
    /\ Triggered(last.addr, last.width, last.data) = "Transfer"
    /\ ~last.accel
    /\ ~DisplayTransferConfig(last.regs).is_texture_copy
    /\ ~Unsupported(last.regs)
    /\ ~crashed

\* byte offset of input pixel (x, y): linear when input_linear, else tiled
SourceOffset(cfg, x, y) ==
    LET bpp == BytesPerPixel(cfg.input_format) IN
    IF cfg.input_linear
    THEN (x + y * cfg.input_width) * bpp
    ELSE GetMortonOffset(x, y, bpp) + Coarse(y) * (cfg.input_width * bpp)
\* byte offset of output pixel (x, y): tiled when exactly one of input_linear
\* and dont_swizzle is clear and it is the swizzle flag, else linear
DestinationOffset(cfg, x, y) ==
    LET bpp == BytesPerPixel(cfg.output_format) IN
    IF cfg.input_linear = cfg.dont_swizzle
    THEN (x + y * cfg.output_width) * bpp
    ELSE GetMortonOffset(x, y, bpp) + Coarse(y) * (cfg.output_width * bpp)
\* the pixels the calls in events moved: << address sampled, address written >>
PixelMoves(events) ==
    {<< events[i].a, events[i + 1].a >> :
       i \in {j \in 1 .. (Len(events) - 1) :
                events[j].call = "load" /\ events[j + 1].call = "store"}}

\* C11: a software display transfer with the vertical flip set writes every
\* output pixel exactly once, and output pixel (x, H - 1 - y) is sampled at
\* input (x << hscale, y << vscale), for every x < W and y < H, W odd or even.
C11_FlipMirrorsRows ==
    (SoftwareTransferred /\ DisplayTransferConfig(last.regs).flip_vertically) =>
        LET cfg == DisplayTransferConfig(last.regs)
            src == DecodeAddressRegister(last.regs[dt_input_address])
            dst == DecodeAddressRegister(last.regs[dt_output_address])
        IN /\ Calls(last.events, "store") = cfg.output_width * cfg.output_height
           /\ PixelMoves(last.events) =
                {<< src + SourceOffset(cfg, x * Pow2(cfg.horizontal_scale),
                                       y * Pow2(cfg.vertical_scale)),
                    dst + DestinationOffset(cfg, x, cfg.output_height - 1 - y) >> :
                   x \in 0 .. (cfg.output_width - 1),
                   y \in 0 .. (cfg.output_height - 1)}

\* the same for even output widths only
C11_EvenWidths ==
    (SoftwareTransferred /\ DisplayTransferConfig(last.regs).flip_vertically
     /\ DisplayTransferConfig(last.regs).output_width % 2 = 0)
    => C11_FlipMirrorsRows
\* and without the flip, with y for H - 1 - y
C11_NoFlip ==
    (SoftwareTransferred /\ ~DisplayTransferConfig(last.regs).flip_vertically) =>
        LET cfg == DisplayTransferConfig(last.regs)
            src == DecodeAddressRegister(last.regs[dt_input_address])
            dst == DecodeAddressRegister(last.regs[dt_output_address])
        IN /\ Calls(last.events, "store") = cfg.output_width * cfg.output_height
           /\ PixelMoves(last.events) =
                {<< src + SourceOffset(cfg, x * Pow2(cfg.horizontal_scale),
                                       y * Pow2(cfg.vertical_scale)),
                    dst + DestinationOffset(cfg, x, y) >> :
                   x \in 0 .. (cfg.output_width - 1),
                   y \in 0 .. (cfg.output_height - 1)}

----------------------------------------------------------------------------
(* Downscaling: a display transfer of tiled RGBA8 input of 2 x 2 pixels     *)
(* with ScaleX or ScaleXY, over source pixels whose channels are drawn      *)
(* from ChannelValues.                                                      *)

\* channel values: the ends of the range, and values whose means truncate
ChannelValues == {0, 1, 10, 20, 30, 255}
\* memory whose k-th source pixel has v[((k + j) % 4) + 1] as its byte j
MemAverage(v) ==
    [p \in MemBase .. (MemBase + MemSize - 1) |->
       IF p - MemBase < 16
       THEN v[((((p - MemBase) \div 4) + ((p - MemBase) % 4)) % 4) + 1]
       ELSE MemInit[p]]
\* flags: ScaleX and ScaleXY, RGBA8 to RGBA8, tiled input, linear output
AverageRegs ==
    {Configure(InitRegs,
        dt_input_address :> Base @@ dt_output_address :> (Base + HalfSize \div 8)
        @@ dt_output_size :> (2 + 2 * 65536) @@ dt_input_size :> (2 + 2 * 65536)
        @@ dt_flags :> flags) : flags \in {Pow2(24) * ScaleX, Pow2(24) * ScaleXY}}

InitAverage ==
    \E regs \in AverageRegs, v \in [1 .. 4 -> ChannelValues] :
        /\ InitGPU(regs, MemAverage(v), FALSE, 1)
        /\ config = NoWindow
        /\ active_config = NoWindow

\* a write of the transfer trigger that the rasterizer declines
AverageTrigger == WriteCall(Addr(dt_trigger), 32, 1, FALSE)

SpecAverage == InitAverage /\ [][AverageTrigger]_vars

\* the sum of byte j of the n pixels of 4 bytes starting at p
RECURSIVE ChannelSum(_, _, _)
ChannelSum(p, j, n) ==
    IF n = 0 THEN 0 ELSE memory[p + j] + ChannelSum(p + 4, j, n - 1)

\* C12: under downscaling each channel of a pixel written is the truncated
\* mean of that channel of the source pixels sampled for it, computed without
\* 8-bit wrap-around: (c0 + c1) div 2 under ScaleX, (c0 + c1 + c2 + c3) div 4
\* under ScaleXY.
C12_TruncatedMean ==
    (SoftwareTransferred
     /\ DisplayTransferConfig(last.regs).scaling \in {ScaleX, ScaleXY}
     /\ DisplayTransferConfig(last.regs).input_format = RGBA8
     /\ DisplayTransferConfig(last.regs).output_format = RGBA8) =>
        LET n == IF DisplayTransferConfig(last.regs).scaling = ScaleX THEN 2 ELSE 4
        IN /\ PixelMoves(last.events) # {}
           /\ \A m \in PixelMoves(last.events), j \in 0 .. 3 :
                 memory[m[2] + j] = ChannelSum(m[1], j, n) \div n
\* four pixels with channels 255 were averaged to 255
C12_Witness ==
    /\ SoftwareTransferred
    /\ DisplayTransferConfig(last.regs).scaling = ScaleXY
    /\ \A p \in MemBase .. (MemBase + 15) : memory[p] = 255
    /\ \A j \in 0 .. 3 : memory[MemBase + HalfSize + j] = 255
\* channels 0, 10, 20, 30 were averaged to 15
C12_WitnessMean15 ==
    /\ SoftwareTransferred
    /\ DisplayTransferConfig(last.regs).scaling = ScaleXY
    /\ \A k \in 0 .. 3 : memory[MemBase + 4 * k] = 10 * k
    /\ memory[MemBase + HalfSize] = 15

----------------------------------------------------------------------------
(* The frame event: firings of vblank_event after GPU::Init, for every      *)
(* frame-skip setting, each delivered on time or late.                      *)

\* Settings::values.frame_skip
FrameSkips == {0, 1, 2, 3}

InitFrame == \E skip \in FrameSkips : InitWith(InitRegs, FALSE, skip)

\* a firing CoreTiming delivers on time, a tick late, or a tick short of a
\* frame late
FrameFire ==
    \E late \in {0, 1, frame_ticks - 1} : nops < MaxFrames /\ VBlankStep(late)

\* a firing delivered a whole frame, or more, late
LateFire ==
    \E late \in {0, frame_ticks, frame_ticks + 1, 2 * frame_ticks} :
        nops < MaxFrames /\ VBlankStep(late)

\* the user changes the frame-skip setting between two firings
SetFrameSkip ==
    \E skip \in FrameSkips :
        /\ nops < MaxFrames
        /\ skip # frame_skip
        /\ frame_skip' = skip
        /\ last' = [op |-> "SetFrameSkip", addr |-> 0, width |-> 0, data |-> skip,
                    accel |-> FALSE, var |-> 0, events |-> << >>,
                    fault |-> FALSE, regs |-> g_regs]
        /\ nops' = nops + 1
        /\ UNCHANGED << g_regs, memory, debug_context, frame_count, g_skip_frame,
                        last_skip_frame, now, pending, crashed, signalled,
                        completed, swaps, window >>

\* a call of GPU::Shutdown()
ShutdownCall ==
    /\ nops < MaxFrames
    /\ pending' = Shutdown(pending)
    /\ last' = [op |-> "Shutdown", addr |-> 0, width |-> 0, data |-> 0,
                accel |-> FALSE, var |-> 0, events |-> << >>,
                fault |-> FALSE, regs |-> g_regs]
    /\ nops' = nops + 1
    /\ UNCHANGED << g_regs, memory, debug_context, frame_skip, frame_count,
                    g_skip_frame, last_skip_frame, now, crashed, signalled,
                    completed, swaps, window >>

SpecFrame == InitFrame /\ [][FrameFire]_vars

NextSkip == FrameFire \/ SetFrameSkip
SpecSkip == InitFrame /\ [][NextSkip]_vars

SpecLate == InitFrame /\ [][LateFire]_vars

NextShutdown == FrameFire \/ ShutdownCall
SpecShutdown == InitFrame /\ [][NextShutdown]_vars

\* the last call was a firing of the frame event
Fired == last.op = "VBlankCallback"

\* C13: with frame_skip = 0 every firing calls SwapBuffers exactly once,
\* whatever the skip flags hold.
C13_ZeroStrideAlwaysSwaps ==
    (Fired /\ frame_skip = 0) => Calls(last.events, "SwapBuffers") = 1
\* a firing with frame_skip = 0 has swapped although the frame before it was
\* skipped (under the setting in force then)
C13_Witness ==
    /\ Fired /\ frame_skip = 0 /\ last_skip_frame
    /\ Calls(last.events, "SwapBuffers") = 1

\* C14: with frame_skip = 1, from Init on, firings 1, 3, 5, ... call
\* SwapBuffers and firings 2, 4, 6, ... do not.
C14_OddFiringsSwap ==
    (Fired /\ frame_skip = 1) =>
        Calls(last.events, "SwapBuffers") = (IF frame_count % 2 = 1 THEN 1 ELSE 0)
\* what the code does instead: firings 2, 4, 6, ... swap
C14_EvenFiringsSwap ==
    (Fired /\ frame_skip = 1) =>
        Calls(last.events, "SwapBuffers") = (IF frame_count % 2 = 0 THEN 1 ELSE 0)

\* C15: from Init on exactly one firing of the frame event is pending, and
\* every firing has called ScheduleEvent exactly once, skipped frame or not.
C15_AlwaysRescheduled ==
    /\ Len(pending) = 1
    /\ Fired => Calls(last.events, "ScheduleEvent") = 1
\* the third firing, of a skipped frame, has rescheduled the event
C15_Witness ==
    /\ Fired /\ frame_count = 3 /\ g_skip_frame
    /\ Calls(last.events, "SwapBuffers") = 0
    /\ Len(pending) = 1

\* C16: the delay a firing hands to ScheduleEvent is never negative, and it
\* is frame_ticks - cycles_late when 0 <= cycles_late <= frame_ticks.
C16_DelayNeverNegative ==
    Fired =>
        \A i \in 1 .. Len(last.events) :
            last.events[i].call = "ScheduleEvent" =>
                /\ last.events[i].a >= 0
                /\ (last.data >= 0 /\ last.data <= frame_ticks)
                   => last.events[i].a = frame_ticks - last.data

\* C17: with every firing delivered less than a frame late, the target of
\* the k-th firing is k * frame_ticks after Init, and the k-th firing happens
\* less than frame_ticks after it.
C17_NoDrift ==
    /\ Head(pending) = (frame_count + 1) * frame_ticks
    /\ Fired => /\ now >= frame_count * frame_ticks
                /\ now < (frame_count + 1) * frame_ticks
\* four firings, each a tick short of a frame late
C17_Witness ==
    /\ Fired /\ frame_count = 4
    /\ now = 4 * frame_ticks + (frame_ticks - 1)
    /\ Head(pending) = 5 * frame_ticks

\* C18: after Shutdown has returned no firing occurs: the frame counter, the
\* swap count and the interrupt counts change no more.
C18_NoFiringAfterShutdown ==
    [][last.op = "Shutdown" =>
         /\ frame_count' = frame_count
         /\ swaps' = swaps
         /\ signalled' = signalled]_vars

----------------------------------------------------------------------------
(* Unmapped addresses: the engines configured with physical addresses that  *)
(* Memory::GetPhysicalPointer does not resolve, then triggered.             *)

\* address registers: an unmapped start or end of a fill and a mapped range
\* (f), an unmapped input or output of a transfer and a mapped pair (t), an
\* unmapped and a mapped command list (c)
NullRegs ==
    {Configure(InitRegs,
        fill_address_start(0) :> f[1] @@ fill_address_end(0) :> f[2]
        @@ fill_value(0) :> 67305985
        @@ fill_address_start(1) :> f[1] @@ fill_address_end(1) :> f[2]
        @@ fill_value(1) :> 1541
        @@ dt_input_address :> t[1] @@ dt_output_address :> t[2]
        @@ dt_output_size :> (2 + 2 * 65536) @@ dt_input_size :> (2 + 2 * 65536)
        @@ dt_flags :> flags
        @@ dt_texture_copy_size :> 16
        @@ dt_texture_copy_input_size :> 1
        @@ dt_texture_copy_output_size :> 1
        @@ cp_size :> 4 @@ cp_address :> c) :
       f \in {<< 1, 2 >>, << 1, Base + 2 >>, << Base + 1, 2 >>,
              << Base + 1, Base + 2 >>},
       t \in {<< 0, Base + 12 >>, << Base, 0 >>, << Base, Base + 12 >>},
       c \in {0, Base + 8}, flags \in {0, 8}}

InitNull == \E regs \in NullRegs : InitWith(regs, FALSE, 1)

\* a write that sets the trigger bit of one of the four trigger cells
NullTrigger ==
    \E cell \in TriggerCells, accel \in BOOLEAN :
        /\ accel => Triggered(Addr(cell), 32, 1) \in {"FillA", "FillB", "Transfer"}
        /\ WriteCall(Addr(cell), 32, 1, accel)

SpecNull == InitNull /\ [][NullTrigger]_vars

\* the last call triggered an operation one of whose configured addresses
\* resolves to no mapping
TriggeredUnmapped ==
    /\ last.op = "Write"
    /\ LET kind == Triggered(last.addr, last.width, last.data)
           unmapped(cell) ==
               GetPhysicalPointer(DecodeAddressRegister(last.regs[cell])) = NULL
       IN CASE kind = "FillA" ->
                 /\ last.regs[fill_address_start(0)] # 0
                 /\ unmapped(fill_address_start(0)) \/ unmapped(fill_address_end(0))
            [] kind = "FillB" ->
                 /\ last.regs[fill_address_start(1)] # 0
                 /\ unmapped(fill_address_start(1)) \/ unmapped(fill_address_end(1))
            [] kind = "Transfer" ->
                 unmapped(dt_input_address) \/ unmapped(dt_output_address)
            [] kind = "Command" -> unmapped(cp_address)
            [] OTHER -> FALSE

\* C19: a triggered operation one of whose addresses resolves to null aborts:
\* it makes no access to raw memory, runs into no undefined access, and hands
\* no buffer to the command processor.
C19_UnmappedAborts ==
    (TriggeredUnmapped /\ ~last.accel) =>
        /\ MemoryAccesses(last.events) = {}
        /\ ~last.fault
        /\ Calls(last.events, "ProcessCommandList") = 0

\* ---------------------------------------------------------------------------
\* The window's configuration (common/emu_window.h)
\* ---------------------------------------------------------------------------

\* the minimal client area the constructor requests
DefaultMinClientArea == << 400, 480 >>

\* values of the fields of a WindowConfig
WindowConfig ==
    [fullscreen : BOOLEAN, res_width : {400, 800}, res_height : {240, 480},
     min_client_area_size : {DefaultMinClientArea, << 640, 480 >>}]

\* EmuWindow::GetActiveConfig()
GetActiveConfig(active) == active

\* EmuWindow::SetConfig(val): the new value of config
SetConfig(val) == val

\* the default EmuWindow::OnMinimalClientAreaChangeRequest: the request is
\* ignored, and the call is all that is left of it
OnMinimalClientAreaChangeRequest(size) ==
    << [call |-> "OnMinimalClientAreaChangeRequest", id |-> 0,
        a |-> size[1], b |-> size[2], c |-> 0] >>

\* EmuWindow::ProcessConfigurationChanges() on the pair (config,
\* active_config): the pair it leaves and the calls it makes
ProcessConfigurationChanges(cfg, active) ==
    IF cfg.min_client_area_size # active.min_client_area_size
    THEN [config |-> [cfg EXCEPT !.min_client_area_size =
                                     active.min_client_area_size],
          active_config |-> active,
          events |-> OnMinimalClientAreaChangeRequest(cfg.min_client_area_size)]
    ELSE [config |-> cfg, active_config |-> active, events |-> << >>]

\* the state the constructor of EmuWindow leaves: the minimal client area is
\* set, the other fields of config hold whatever the storage held
InitWindow ==
    /\ InitGPU(InitRegs, MemInit, FALSE, 0)
    /\ \E c \in WindowConfig :
           /\ c.min_client_area_size = DefaultMinClientArea
           /\ config = c
           /\ active_config = c

\* a call of SetConfig(val)
SetConfigCall ==
    /\ nops < MaxOps
    /\ \E val \in WindowConfig :
           /\ config' = SetConfig(val)
           /\ last' = [op |-> "SetConfig", addr |-> 0, width |-> 0,
                       data |-> val, accel |-> FALSE, var |-> 0,
                       events |-> << >>, fault |-> FALSE, regs |-> g_regs]
    /\ nops' = nops + 1
    /\ UNCHANGED << g_regs, memory, debug_context, frame_skip, frame_count,
                    g_skip_frame, last_skip_frame, now, pending, crashed,
                    signalled, completed, swaps, active_config >>

\* a call of ProcessConfigurationChanges()
ProcessConfigurationChangesCall ==
    /\ nops < MaxOps
    /\ LET r == ProcessConfigurationChanges(config, active_config)
       IN /\ config' = r.config
          /\ active_config' = r.active_config
          /\ last' = [op |-> "ProcessConfigurationChanges", addr |-> 0,
                      width |-> 0, data |-> config, accel |-> FALSE,
                      var |-> 0, events |-> r.events, fault |-> FALSE,
                      regs |-> g_regs]
    /\ nops' = nops + 1
    /\ UNCHANGED << g_regs, memory, debug_context, frame_skip, frame_count,
                    g_skip_frame, last_skip_frame, now, pending, crashed,
                    signalled, completed, swaps >>

NextWindow == SetConfigCall \/ ProcessConfigurationChangesCall
SpecWindow == InitWindow /\ [][NextWindow]_vars

\* C20: a configuration requested with SetConfig(val) is the active one once
\* ProcessConfigurationChanges() has run: GetActiveConfig() returns val, and
\* the request is still what config holds.
C20_RequestBecomesActive ==
    [][(last.op = "SetConfig" /\ last'.op = "ProcessConfigurationChanges") =>
           /\ GetActiveConfig(active_config') = last.data
           /\ config' = last.data]_vars

\* what the code does keep: the active configuration is the one the
\* constructor left, whatever is requested and processed
C20_ActiveNeverChanges ==
    [][active_config' = active_config]_vars

\* and processing withdraws the requested minimal client area
C20_RequestWithdrawn ==
    last.op = "ProcessConfigurationChanges" =>
        config.min_client_area_size = active_config.min_client_area_size

----------------------------------------------------------------------------
(* The order of the calls of a fill or a transfer, checked under Spec.      *)

\* the rasterizer's acceleration hooks
HookCalls == {"AccelerateFill", "AccelerateDisplayTransfer"}
\* the place of the first of the calls in events that is one of `calls`;
\* Len(events) + 1 if there is none
First(events, calls) ==
    LET at == {i \in 1 .. Len(events) : events[i].call \in calls}
    IN IF at = {} THEN Len(events) + 1
       ELSE CHOOSE i \in at : \A j \in at : i <= j
\* the engine the last call triggered, "None" if it triggered none
LastKind ==
    IF last.op = "Write" THEN Triggered(last.addr, last.width, last.data)
    ELSE "None"

\* C21: in a fill or a transfer the acceleration hook is asked before the
\* engine reads or writes raw memory; when the hook accepts, the engine makes
\* no access to raw memory; when it declines, the range written is flushed
\* and invalidated, and the range read by a transfer is flushed, before the
\* first write to raw memory.
C21_HookBeforeAccess ==
    LastKind \in {"FillA", "FillB", "Transfer"} =>
        LET ev == last.events
            n == Len(ev)
            hook == First(ev, HookCalls)
            access == First(ev, {"store", "memcpy", "load"})
            write == First(ev, {"store", "memcpy"})
        IN /\ access <= n => hook < access
           /\ last.accel => access > n
           /\ (~last.accel /\ write <= n) =>
                 /\ First(ev, {"RasterizerFlushAndInvalidateRegion"}) < write
                 /\ LastKind = "Transfer" =>
                       First(ev, {"RasterizerFlushRegion"}) < write
\* after a fill that completed, a display transfer that the hook declined
\* has written pixels
C21_Witness ==
    /\ LastKind = "Transfer"
    /\ ~last.accel
    /\ Calls(last.events, "store") > 0
    /\ completed["FillA"] = 1

----------------------------------------------------------------------------
(* The cache calls of a display transfer, checked under SpecTransfer.       *)

\* the last call triggered a display transfer (no texture copy) with a
\* configuration the software path carries out
TriggeredSupported ==
    /\ LastKind = "Transfer"
    /\ Field(last.regs[dt_flags], 3, 1) = 0
    /\ ~Unsupported(last.regs)

\* C22 as stated: a triggered display transfer with a supported configuration
\* flushes the source range and flushes and invalidates the destination
\* range before it is offered to the acceleration hook, whatever the hook
\* answers.
C22_FlushedBeforeOffer ==
    TriggeredSupported =>
        LET hook == First(last.events, {"AccelerateDisplayTransfer"})
        IN /\ First(last.events, {"RasterizerFlushRegion"}) < hook
           /\ First(last.events, {"RasterizerFlushAndInvalidateRegion"}) < hook

\* C22, amended: a triggered display transfer with a supported configuration
\* is offered to the acceleration hook first.  When the hook accepts, neither
\* cache call is made.  When it declines, the source range (input width *
\* height * bytes per pixel from the input address) is flushed once and the
\* destination range (output width * height * bytes per pixel from the output
\* address) is flushed and invalidated once, after the offer and before the
\* first access to raw memory.
C22_FlushedOnlyWhenDeclined ==
    TriggeredSupported =>
        LET ev == last.events
            cfg == DisplayTransferConfig(last.regs)
            hook == First(ev, {"AccelerateDisplayTransfer"})
            flush == First(ev, {"RasterizerFlushRegion"})
            inval == First(ev, {"RasterizerFlushAndInvalidateRegion"})
            access == First(ev, {"store", "memcpy", "load"})
        IN /\ Calls(ev, "AccelerateDisplayTransfer") = 1
           /\ last.accel =>
                 /\ Calls(ev, "RasterizerFlushRegion") = 0
                 /\ Calls(ev, "RasterizerFlushAndInvalidateRegion") = 0
           /\ ~last.accel =>
                 /\ Calls(ev, "RasterizerFlushRegion") = 1
                 /\ Calls(ev, "RasterizerFlushAndInvalidateRegion") = 1
                 /\ hook < flush /\ flush < inval /\ inval < access
                 /\ ev[flush].a = 8 * last.regs[dt_input_address]
                 /\ ev[flush].b = cfg.input_width * cfg.input_height
                                  * BytesPerPixel(cfg.input_format)
                 /\ ev[inval].a = 8 * last.regs[dt_output_address]
                 /\ ev[inval].b = cfg.output_width * cfg.output_height
                                  * BytesPerPixel(cfg.output_format)
\* the hook has accepted a display transfer with a supported configuration,
\* which completed
C22_Witness ==
    /\ TriggeredSupported
    /\ last.accel
    /\ Signals(last.events, "PPF") = 1
\* the hook has declined one, which flushed both ranges and wrote pixels
C22_WitnessDeclined ==
    /\ TriggeredSupported
    /\ ~last.accel
    /\ Calls(last.events, "RasterizerFlushRegion") = 1
    /\ Calls(last.events, "store") > 0

----------------------------------------------------------------------------
(* The cache calls of a texture copy, checked under SpecCopy.               *)

\* the bytes moved by the last call all lie in the ranges its cache calls
\* name: the sources in the flushed one, the destinations in the flushed and
\* invalidated one
CopyCovered ==
    LET ev == last.events
        flush == ev[First(ev, {"RasterizerFlushRegion"})]
        inval == ev[First(ev, {"RasterizerFlushAndInvalidateRegion"})]
        moved == CopiedBytes(ev)
    IN \A k \in 1 .. Len(moved) :
          /\ moved[k][1] >= flush.a /\ moved[k][1] < flush.a + flush.b
          /\ moved[k][2] >= inval.a /\ moved[k][2] < inval.a + inval.b

\* C23: in a software texture copy the flushed source range contains every
\* byte the copy reads and the flushed and invalidated destination range
\* contains every byte it writes, for every size and row widths that are not
\* 0, sizes that are no multiple of the row width included.
C23_FlushCoversCopy ==
    SoftwareCopied =>
        /\ Calls(last.events, "RasterizerFlushRegion") = 1
        /\ Calls(last.events, "RasterizerFlushAndInvalidateRegion") = 1
        /\ CopyCovered

\* what the code does keep: the ranges cover a copy of whole rows
C23_WholeRowsCovered ==
    (/\ SoftwareCopied
     /\ last.regs[dt_texture_copy_size]
          % (16 * Field(last.regs[dt_texture_copy_input_size], 0, 16)) = 0
     /\ last.regs[dt_texture_copy_size]
          % (16 * Field(last.regs[dt_texture_copy_output_size], 0, 16)) = 0)
    => CopyCovered

----------------------------------------------------------------------------
(* Which writes run which engine, checked under Spec.                       *)

\* how many of the calls in events are AccelerateFill for engine n
FillOffers(events, n) ==
    Cardinality({i \in 1 .. Len(events) :
                   events[i].call = "AccelerateFill" /\ events[i].a = n})
\* the calls in events other than the tracer's
EngineCalls(events) == SelectSeq(events, LAMBDA e : e.call # "RegisterWritten")

\* C24: a write runs an engine exactly when it is an accepted 32-bit write
\* that stores a word with the trigger bit set in that engine's trigger cell,
\* and then it runs that engine once and no other: a fill engine asks its
\* hook once (if it has a start address), clears its trigger bit and sets
\* finished; the transfer engine is offered to its hook once; command
\* dispatch calls ProcessCommandList once, with the resolved buffer and the
\* configured word count.  Any other write stores at most its word: no access
\* to raw memory, no hook call, no interrupt, no change of another cell.
C24_EnginePerTrigger ==
    [][last'.op = "Write" =>
         LET kind == Triggered(last'.addr, last'.width, last'.data)
             index == RegIndex(last'.addr)
             ev == last'.events
             fill(n) ==
               /\ FillOffers(ev, n) = (IF g_regs[fill_address_start(n)] # 0 THEN 1 ELSE 0)
               /\ FillOffers(ev, 1 - n) = 0
               /\ Field(g_regs'[fill_control(n)], 0, 1) = 0
               /\ Field(g_regs'[fill_control(n)], 1, 1) = 1
               /\ Calls(ev, "AccelerateDisplayTransfer") = 0
               /\ Calls(ev, "ProcessCommandList") = 0
         IN /\ \A i \in DOMAIN g_regs : i # index => g_regs'[i] = g_regs[i]
            /\ CASE kind = "FillA" -> fill(0)
                 [] kind = "FillB" -> fill(1)
                 [] kind = "Transfer" ->
                      /\ Calls(ev, "AccelerateDisplayTransfer") = 1
                      /\ Calls(ev, "AccelerateFill") = 0
                      /\ Calls(ev, "ProcessCommandList") = 0
                 [] kind = "Command" ->
                      LET at == First(ev, {"ProcessCommandList"}) IN
                      /\ Calls(ev, "ProcessCommandList") = 1
                      /\ ev[at].a = GetPhysicalPointer(8 * g_regs[cp_address])
                      /\ ev[at].b = g_regs[cp_size]
                      /\ Calls(ev, "AccelerateDisplayTransfer") = 0
                      /\ Calls(ev, "AccelerateFill") = 0
                      /\ MemoryAccesses(ev) = {}
                      /\ signalled' = signalled
                 [] OTHER ->
                      /\ EngineCalls(ev) = << >>
                      /\ memory' = memory
                      /\ signalled' = signalled
                      /\ ~Rejected(last'.addr, last'.width) =>
                            g_regs'[index] = last'.data]_vars
\* a command list has been dispatched after a write of the same trigger cell
\* with the trigger bit clear, which ran nothing
C24_Witness ==
    /\ LastKind = "Command"
    /\ Calls(last.events, "ProcessCommandList") = 1
    /\ nops = 2
    /\ last.regs[cp_trigger] = 2

----------------------------------------------------------------------------
(* Register traffic against the frame event, checked under Spec.            *)

\* C25: no Read and no Write, accepted or rejected, with or without a
\* trigger, changes the frame counter, the current or the previous skip flag,
\* or the pending frame event; no firing of the frame event changes a
\* register cell or the memory.  The two act on disjoint state, so a firing
\* and a register write leave the same state in either order.
C25_DisjointState ==
    [][/\ last'.op \in {"Read", "Write"} =>
             /\ frame_count' = frame_count
             /\ g_skip_frame' = g_skip_frame
             /\ last_skip_frame' = last_skip_frame
             /\ pending' = pending
             /\ now' = now
             /\ swaps' = swaps
       /\ last'.op = "VBlankCallback" =>
             /\ g_regs' = g_regs
             /\ memory' = memory
             /\ completed' = completed]_vars
\* the frame event has fired after a write that ran a transfer
C25_Witness ==
    /\ last.op = "VBlankCallback"
    /\ nops = 2
    /\ completed["Transfer"] = 1
    /\ frame_count = 1
\* a write has run a fill after the frame event fired
C25_WitnessWriteAfter ==
    /\ LastKind = "FillA"
    /\ nops = 2
    /\ frame_count = 1
    /\ pending = << 2 * frame_ticks >>

----------------------------------------------------------------------------
(* The bytes a software fill writes, checked under SpecFill.                *)

\* the last call ran the software fill, over a range that may be empty
SoftwareFillRan ==
    /\ FillEngine # -1
    /\ last.regs[fill_address_start(FillEngine)] # 0
    /\ ~last.accel
\* every store of the last call lies in [FillStart, FillEnd)
StoresInRange ==
    \A i \in 1 .. Len(last.events) :
        last.events[i].call = "store" =>
            /\ last.events[i].a >= FillStart
            /\ last.events[i].a + last.events[i].b <= FillEnd

\* C26: a software fill writes no byte before address_start and none at or
\* past address_end, for the three pattern widths and every length of the
\* range, lengths that are no multiple of the pattern size included; a range
\* with end <= start has no byte written, and the fill still completes.
C26_FillStaysInRange ==
    SoftwareFillRan =>
        /\ StoresInRange
        /\ FillEnd <= FillStart => Calls(last.events, "store") = 0
        /\ Field(g_regs[fill_control(FillEngine)], 0, 1) = 0
        /\ Field(g_regs[fill_control(FillEngine)], 1, 1) = 1
        /\ Signals(last.events, FillInterrupt(FillEngine)) = 1

\* what the code does keep: the 16-bit and the 32-bit pattern stay in the
\* range, and so does the 24-bit pattern over a length that is a multiple of 3
C26_WholePatternsStayInRange ==
    (SoftwareFillRan
     /\ (Field(last.data, 8, 1) = 1 => (FillEnd - FillStart) % 3 = 0
                                       \/ FillEnd <= FillStart))
    => StoresInRange

----------------------------------------------------------------------------
(* Texture copies with row widths of 0: the transfer engine configured for  *)
(* a texture copy of a few rows, with every combination of a row width of   *)
(* 0 or 16 bytes and a gap of 0 or 16 bytes, then triggered.                *)

InitZeroWidth ==
    \E size \in {0, 16, 32}, iw \in {0, 1}, ig \in {0, 1}, ow \in {0, 1}, og \in {0, 1} :
        InitWith(Configure(InitRegs,
                   dt_input_address :> Base
                   @@ dt_output_address :> (Base + HalfSize \div 8)
                   @@ dt_flags :> 8
                   @@ dt_texture_copy_size :> size
                   @@ dt_texture_copy_input_size :> (iw + ig * 65536)
                   @@ dt_texture_copy_output_size :> (ow + og * 65536)),
                 FALSE, 1)

SpecZeroWidth == InitZeroWidth /\ [][CopyTrigger]_vars

\* the last call triggered a texture copy that the hook declined
TriggeredSoftwareCopy ==
    /\ LastKind = "Transfer"
    /\ Field(last.regs[dt_flags], 3, 1) = 1
    /\ ~last.accel

\* C27: a triggered software texture copy runs to its end and returns to the
\* writer, signalling PPF, for every size, gap and row width the registers
\* can hold, a width of 0 included.
C27_CopyReturns ==
    TriggeredSoftwareCopy =>
        /\ ~last.fault
        /\ Signals(last.events, "PPF") = 1

\* what the code does keep: it returns whenever both row widths are not 0
C27_NonZeroWidthsReturn ==
    (/\ TriggeredSoftwareCopy
     /\ Field(last.regs[dt_texture_copy_input_size], 0, 16) # 0
     /\ Field(last.regs[dt_texture_copy_output_size], 0, 16) # 0)
    => (/\ ~last.fault
        /\ Signals(last.events, "PPF") = 1)

====
